---- MODULE Spec2Model ----
(***************************************************************************)
(* Client-side catalog synchronisation of the card toolbox:                *)
(*   - the Migration Guard (cardService.ts, migrateHardcodedCards),        *)
(*   - the Reactive Catalog Cache (useCards.ts, useCards),                 *)
(* against one remote `cards` table and one browser-local storage.         *)
(*                                                                         *)
(* Every action is one synchronous segment of a handler: the code between  *)
(* two awaits runs without interleaving on the JavaScript event loop, and  *)
(* the remote store serves each request at one instant between the         *)
(* request and its response.                                               *)
(***************************************************************************)
EXTENDS Integers, Sequences, FiniteSets, TLC

\* ---------------------------------------------------------------- bounds
NumSessions  == 2    \* application sessions (mounts of useCards) modelled
MaxExtWrites == 1    \* createCard / deleteCard calls applied by the store
MaxInFlight  == 2    \* getAllCards calls of one session in flight at a time
MaxWrites    == 1    \* createCard / updateCard calls made through the service
MaxCards     == 2    \* cards of the snapshot handed to useFilters
MaxRuns      == 3    \* clicks on Run Code in one CodeEditor

Sessions == 1..NumSessions

\* ------------------------------------------------------ program constants
\* allCards (data/cards), the bundled seed list, by title
SeedList == <<"seed1", "seed2">>

\* useState<string | null>(null)
NoError == "null"
\* `Failed to migrate cards: ${error.message}`
MigrateError == "Failed to migrate cards"
\* `Failed to fetch cards: ${error.message}`
FetchError == "Failed to fetch cards"
\* the message CardFormModal shows when the store call throws
SaveError == "Failed to save card"

\* the classifications and the time-complexity texts entered in the form
Classifications == {"algorithms", "sorts", "data-structures"}
TimeTexts == {"", " ", "O(n)"}

VARIABLES
  store,       \* rows of the remote cards table, oldest first
  nextId,      \* next identifier the store assigns
  marker,      \* localStorage['toolbox_cards_migrated'] = 'true'
  sess,        \* per session: "none" | "live" | "torn" | "crashed"
  cards,       \* per session: useState cards
  loading,     \* per session: useState loading
  error,       \* per session: useState error
  guard,       \* per session: the run of migrateHardcodedCards
  fetches,     \* per session: getAllCards calls in flight, in issue order
  pending,     \* per session: change events sent to the channel, not yet handled
  extWrites,   \* createCard / deleteCard calls applied so far
  bulkInserts, \* successful bulk inserts of the seed list
  deleted,     \* some card has been deleted
  fetchFailed, \* per session: some getAllCards call of the session has failed
  rev,         \* the revision of services/cardService the build contains
  x,           \* an internal item (Card) handed to the adapter
  table,       \* rows of the cards table with all their columns, by id
  last,        \* the last call of the card service: its arguments and result
  form,        \* CardFormModal: its props and state
  writes,      \* createCard / updateCard / deleteCard calls made so far
  detail,      \* CardDetail: its props and state
  refetches,   \* calls of refetch() made by App.handleCardCreated
  query,       \* App: the snapshot handed to useFilters and the filters
  paging,      \* App: currentPage and itemsPerPage
  editor       \* CodeEditor: its state, the requests sent, the last response

\* the state of the card service and the card form
catVars == <<rev, x, table, last, form, writes, detail, refetches, query, paging, editor>>

vars == <<store, nextId, marker, sess, cards, loading, error, guard, fetches,
          pending, extWrites, bulkInserts, deleted, fetchFailed,
          rev, x, table, last, form, writes, detail, refetches, query, paging, editor>>

\* ---------------------------------------------------------------- helpers
RECURSIVE Reverse(_)
Reverse(q) == IF q = <<>> THEN <<>> ELSE Append(Reverse(Tail(q)), Head(q))

RemoveAt(q, i) == [j \in 1..(Len(q) - 1) |-> IF j < i THEN q[j] ELSE q[j + 1]]

\* rows the store creates for a bulk insert of titles, ids assigned in order
NewRows(titles, first) ==
  [j \in 1..Len(titles) |-> [id |-> first + j - 1, title |-> titles[j]]]

\* `let mounted` of the effect closure
mounted(s) == sess[s] = "live"

\* the JavaScript of the session is still running (tab not closed)
Running(s) == sess[s] \in {"live", "torn"}

\* Subscribed with the cleanup not removing the channel: it stays subscribed
\* after teardown.
Subscribed_AfterTeardown(s) == sess[s] \in {"live", "torn"}

\* the channel 'cards-changes' of the session is subscribed
Subscribed(s) == sess[s] = "live"

\* the store's change feed: one event to every subscribed channel
Broadcast == [t \in Sessions |-> IF Subscribed(t) THEN pending[t] + 1 ELSE pending[t]]

\* .from('cards').select('*').order('created_at', { ascending: false })
SelectAll == Reverse(store)

\* a getAllCards call just issued
NewFetch(origin) == [origin |-> origin, phase |-> "sent", ok |-> FALSE, data |-> <<>>]

\* getAllCards calls of the session in flight, counting the one loadCards
\* is about to make when its guard returns
InFlight(s) == Len(fetches[s]) + (IF guard[s].pc \in {"probe", "insert", "insertResp"} THEN 1 ELSE 0)

\* a run of the guard between its first remote call and its end
GuardActive(t) == guard[t].pc \in {"probe", "insert", "insertResp"}
GuardEnded(t)  == guard[t].pc \in {"returned", "failed", "crashed"}

IdleGuard == [pc |-> "idle", sawMarker |-> FALSE, hadItems |-> FALSE,
              probe |-> "none", ins |-> "none",
              nProbe |-> 0, nInsert |-> 0, setMarker |-> FALSE, prior |-> {}]

\* ------------------------------------------------ card service (values)
\* JavaScript values of a field that may be absent: undefined, null, or a
\* value (a string, or an array as a sequence)
Undefined == <<"undefined">>
Null      == <<"null">>
Val(v)    == <<"val", v>>
IsVal(v)  == Len(v) = 2

\* `v || d` for a string, null or undefined v: the empty string is falsy
StrOr(v, d) == IF IsVal(v) /\ v[2] # "" THEN v ELSE d
\* `v || d` for an array, null or undefined v: every array is truthy
ArrOr(v, d) == IF IsVal(v) THEN v ELSE d

\* the two revisions of services/cardService in the sources: the one that
\* holds the migration, and the one with the methods and language columns
Revisions == {"cardService.ts", "part_003"}

\* methods.map(m => ({ name: m.name, time_complexity: m.timeComplexity }))
MethodsToDb(ms) ==
  [j \in 1..Len(ms) |-> [name |-> ms[j].name, time_complexity |-> ms[j].timeComplexity]]

\* methods.map(m => ({ name: m.name, timeComplexity: m.time_complexity }))
MethodsToCard(ms) ==
  [j \in 1..Len(ms) |-> [name |-> ms[j].name, timeComplexity |-> ms[j].time_complexity]]

\* Transform Card interface to database format
cardToDb(card) ==
  LET common ==
        [title            |-> card.title,
         classification   |-> card.classification,
         difficulty       |-> StrOr(card.difficulty, Null),
         code             |-> card.code,
         explanation      |-> card.explanation,
         time_complexity  |-> StrOr(card.timeComplexity, Null),
         space_complexity |-> StrOr(card.spaceComplexity, Null),
         tags             |-> card.tags,
         use_cases        |-> ArrOr(card.useCases, Null),
         related_problems |-> ArrOr(card.relatedProblems, Null),
         date_added       |-> StrOr(card.dateAdded, Null)]
  IN IF rev = "part_003"
     THEN common @@
          [methods  |-> IF IsVal(card.methods)
                        THEN Val(MethodsToDb(card.methods[2])) ELSE Null,
           language |-> StrOr(card.language, Null)]
     ELSE common

\* Transform database card to Card interface; a key the returned object
\* lacks reads as undefined
dbToCard(dbCard) ==
  LET common ==
        [id              |-> dbCard.id,
         title           |-> dbCard.title,
         classification  |-> dbCard.classification,
         difficulty      |-> StrOr(dbCard.difficulty, Undefined),
         code            |-> dbCard.code,
         explanation     |-> dbCard.explanation,
         timeComplexity  |-> StrOr(dbCard.time_complexity, Undefined),
         spaceComplexity |-> StrOr(dbCard.space_complexity, Undefined),
         tags            |-> dbCard.tags,
         useCases        |-> ArrOr(dbCard.use_cases, Undefined),
         relatedProblems |-> ArrOr(dbCard.related_problems, Undefined),
         dateAdded       |-> StrOr(dbCard.date_added, Undefined)]
  IN IF rev = "part_003"
     THEN common @@
          [methods  |-> IF IsVal(dbCard.methods)
                        THEN Val(MethodsToCard(dbCard.methods[2])) ELSE Undefined,
           language |-> StrOr(dbCard.language, Undefined)]
     ELSE common @@ [methods |-> Undefined, language |-> Undefined]

\* the columns of the cards table that hold a card
Columns == {"id", "title", "classification", "difficulty", "code", "explanation",
            "time_complexity", "space_complexity", "methods", "tags", "use_cases",
            "related_problems", "date_added", "language"}

\* the field of Card each column of an update is computed from
FieldOf == [title |-> "title", classification |-> "classification",
            difficulty |-> "difficulty", code |-> "code",
            explanation |-> "explanation", time_complexity |-> "timeComplexity",
            space_complexity |-> "spaceComplexity", methods |-> "methods",
            tags |-> "tags", use_cases |-> "useCases",
            related_problems |-> "relatedProblems", date_added |-> "dateAdded",
            language |-> "language"]

\* .insert(dbCard): the store assigns the id; a column the record has no key
\* for is null
InsertRow(dbCard, id) ==
  [c \in Columns |-> IF c = "id" THEN id
                     ELSE IF c \in DOMAIN dbCard THEN dbCard[c] ELSE Null]

\* .update(updateData).eq('id', id): the columns the record has a key for
UpdateRow(row, updateData) ==
  [c \in Columns |-> IF c \in DOMAIN updateData THEN updateData[c] ELSE row[c]]

\* .eq('id', id): some row of the table has the identifier
HasId(t, id) == \E j \in 1..Len(t) : t[j].id = id

\* the position of the row .eq('id', id) selects
IndexOf(t, id) == CHOOSE j \in 1..Len(t) : t[j].id = id

RowById(t, id) == t[IndexOf(t, id)]

\* .delete().eq('id', id): the rows that stay
RECURSIVE DeleteRows(_, _)
DeleteRows(t, id) ==
  IF t = <<>> THEN <<>>
  ELSE IF Head(t).id = id THEN DeleteRows(Tail(t), id)
       ELSE <<Head(t)>> \o DeleteRows(Tail(t), id)

\* updateData of updateCard: one key per field of updates that is not undefined
UpdateData(updates) ==
  LET all == cardToDb(updates)
  IN [c \in {k \in DOMAIN all : updates[FieldOf[k]] # Undefined} |-> all[c]]

\* a method of a data structure (types/card.ts Method)
Push == [name |-> "push", timeComplexity |-> "O(1)"]
Pop  == [name |-> "pop", timeComplexity |-> "O(1)"]

\* two cards of allCards (data/cards): an algorithm with its single pair of
\* complexities and a data structure with its methods
SortSeed ==
  [title |-> Val("Bubble Sort"), classification |-> Val("sorts"),
   difficulty |-> Val("easy"), code |-> Val("code"), explanation |-> Val("text"),
   timeComplexity |-> Val("O(n^2)"), spaceComplexity |-> Val("O(1)"),
   methods |-> Undefined, tags |-> Val(<<"sorting">>),
   useCases |-> Val(<<"teaching">>), relatedProblems |-> Undefined,
   dateAdded |-> Val("2024-01-01"), language |-> Val("python")]

StackSeed ==
  [title |-> Val("Stack"), classification |-> Val("data-structures"),
   difficulty |-> Undefined, code |-> Val("code"), explanation |-> Val("text"),
   timeComplexity |-> Undefined, spaceComplexity |-> Val("O(n)"),
   methods |-> Val(<<Push>>), tags |-> Val(<<"lifo">>),
   useCases |-> Undefined, relatedProblems |-> Undefined,
   dateAdded |-> Val("2024-01-01"), language |-> Val("python")]

SeedCards == <<SortSeed, StackSeed>>

\* the table after the bulk insert of allCards.map(card => cardToDb(card))
SeedRows == [j \in 1..Len(SeedCards) |-> InsertRow(cardToDb(SeedCards[j]), j)]

\* internal items handed to the adapter
Items ==
  {[title |-> Val("Heap"), classification |-> Val(c), difficulty |-> d,
    code |-> Val("code"), explanation |-> Val("text"),
    timeComplexity |-> tc, spaceComplexity |-> Val("O(n)"),
    methods |-> ms, tags |-> Val(<<"tree">>), useCases |-> uc,
    relatedProblems |-> Undefined, dateAdded |-> Val("2024-01-01"),
    language |-> lg] :
     c \in {"sorts", "data-structures"}, d \in {Undefined, Val("easy")},
     tc \in {Undefined, Val(""), Val("O(log n)")},
     ms \in {Undefined, Val(<<>>), Val(<<Push>>)},
     uc \in {Undefined, Val(<<"scheduling">>)},
     lg \in {Undefined, Val("python")}}

\* partial cards handed to updateCard: a field left out is undefined
NoUpdates ==
  [title |-> Undefined, classification |-> Undefined, difficulty |-> Undefined,
   code |-> Undefined, explanation |-> Undefined, timeComplexity |-> Undefined,
   spaceComplexity |-> Undefined, methods |-> Undefined, tags |-> Undefined,
   useCases |-> Undefined, relatedProblems |-> Undefined,
   dateAdded |-> Undefined, language |-> Undefined]

Updates ==
  {[NoUpdates EXCEPT !.title = t, !.difficulty = d, !.timeComplexity = tc,
                     !.methods = ms, !.language = lg] :
     t \in {Undefined, Val("Renamed")}, d \in {Undefined, Val("hard")},
     tc \in {Undefined, Val(""), Val("O(n)")},
     ms \in {Undefined, Val(<<Pop>>)},
     lg \in {Undefined, Val("javascript")}}

\* ------------------------------------------------ card form (values)
\* String.prototype.trim on the texts typed into the form
Trim(str) == IF str = " " THEN "" ELSE str

NonBlank(entry) == entry # ""

\* text.split(sep).map(e => e.trim()).filter(e => e.length > 0), the text
\* given as its entries between separators
ParseList(entries) == SelectSeq([j \in 1..Len(entries) |-> Trim(entries[j])], NonBlank)

\* `v || d` with a plain default: card?.title || ''
OrDefault(v, d) == IF IsVal(v) /\ v[2] # "" THEN v[2] ELSE d
\* card?.methods || [], card?.useCases?.join('\n') || ''
ListOrEmpty(v) == IF IsVal(v) THEN v[2] ELSE <<>>

\* the lists of methods entered in the form
MethodLists == {<<>>, <<Pop>>}

\* getBoilerplate(initialLanguage)
Boilerplate == "boilerplate"

\* the modal is not rendered
ClosedForm ==
  [open |-> FALSE, card |-> 0, isAuthenticated |-> FALSE, showAuthModal |-> FALSE,
   error |-> NoError, title |-> "", classification |-> "algorithms",
   difficulty |-> "", language |-> "python", code |-> "", explanation |-> "",
   timeComplexity |-> "", spaceComplexity |-> "", methods |-> <<>>,
   tags |-> <<>>, useCases |-> <<>>, relatedProblems |-> <<>>]

\* useState of formData, from the card prop (none when creating)
InitialForm(id, card, auth) ==
  [open |-> TRUE, card |-> id, isAuthenticated |-> auth, showAuthModal |-> FALSE,
   error |-> NoError,
   title |-> OrDefault(card.title, ""),
   classification |-> OrDefault(card.classification, "algorithms"),
   difficulty |-> OrDefault(card.difficulty, ""),
   language |-> OrDefault(card.language, "python"),
   code |-> OrDefault(card.code, IF id # 0 THEN "" ELSE Boilerplate),
   explanation |-> OrDefault(card.explanation, ""),
   timeComplexity |-> OrDefault(card.timeComplexity, ""),
   spaceComplexity |-> OrDefault(card.spaceComplexity, ""),
   methods |-> ListOrEmpty(card.methods),
   tags |-> ListOrEmpty(card.tags),
   useCases |-> ListOrEmpty(card.useCases),
   relatedProblems |-> ListOrEmpty(card.relatedProblems)]

\* cardData of handleSubmit
CardData(f) ==
  [title |-> Val(Trim(f.title)),
   classification |-> Val(f.classification),
   difficulty |-> StrOr(Val(f.difficulty), Undefined),
   language |-> Val(f.language),
   code |-> Val(Trim(f.code)),
   explanation |-> Val(Trim(f.explanation)),
   timeComplexity |-> IF f.classification = "data-structures" THEN Undefined
                      ELSE StrOr(Val(Trim(f.timeComplexity)), Undefined),
   spaceComplexity |-> StrOr(Val(Trim(f.spaceComplexity)), Undefined),
   methods |-> IF f.classification = "data-structures" /\ Len(f.methods) > 0
               THEN Val(f.methods) ELSE Undefined,
   tags |-> Val(ParseList(f.tags)),
   useCases |-> IF Len(ParseList(f.useCases)) > 0
                THEN Val(ParseList(f.useCases)) ELSE Undefined,
   relatedProblems |-> IF Len(ParseList(f.relatedProblems)) > 0
                       THEN Val(ParseList(f.relatedProblems)) ELSE Undefined,
   dateAdded |-> Undefined]

\* CardDetail is not shown (selectedCard is null)
ClosedDetail ==
  [card |-> 0, isAuthenticated |-> FALSE, showEditModal |-> FALSE,
   showDeleteConfirm |-> FALSE, showAuthModal |-> FALSE]

\* ------------------------------------------------ query (values)
\* Text is a sequence of UTF-16 code units here, so that the order and the
\* case of strings can be computed.
ToLower(c) == IF c \in 65..90 THEN c + 32 ELSE c

\* String.prototype.toLowerCase
LowerCase(text) == [i \in 1..Len(text) |-> ToLower(text[i])]

\* a sorts before b by code units, the default order of Array.prototype.sort
RECURSIVE StrLess(_, _)
StrLess(a, b) ==
  IF b = <<>> THEN FALSE
  ELSE IF a = <<>> THEN TRUE
  ELSE IF Head(a) # Head(b) THEN Head(a) < Head(b)
  ELSE StrLess(Tail(a), Tail(b))

\* String.prototype.includes
Includes(text, part) ==
  \E i \in 0..(Len(text) - Len(part)) : SubSeq(text, i + 1, i + Len(part)) = part

\* the tags of an item joined by a space
RECURSIVE Join(_)
Join(tags) ==
  IF tags = <<>> THEN <<>>
  ELSE IF Len(tags) = 1 THEN tags[1]
  ELSE tags[1] \o <<32>> \o Join(Tail(tags))

\* the tags of one card, as a set
TagsOf(card) == {card.tags[i] : i \in 1..Len(card.tags)}

\* tagSet of allTags: every tag of every card, each once
TagSet(cs) == UNION {TagsOf(cs[j]) : j \in 1..Len(cs)}

\* Array.from(tagSet).sort()
RECURSIVE SortTags(_)
SortTags(S) ==
  IF S = {} THEN <<>>
  ELSE LET m == CHOOSE t \in S : \A u \in S \ {t} : StrLess(t, u)
       IN <<m>> \o SortTags(S \ {m})

\* allTags of useCards: computed from the snapshot
allTags(cs) == SortTags(TagSet(cs))

\* the filters before the user changes any
DefaultFilters ==
  [classification |-> "all", difficulty |-> "all", tagSelection |-> {},
   searchText |-> <<>>, sortField |-> "dateAdded", sortDirection |-> "desc"]

MatchesClassification(item, spec) ==
  spec.classification = "all" \/ item.classification = spec.classification

MatchesDifficulty(item, spec) ==
  spec.difficulty = "all" \/ item.difficulty = spec.difficulty

\* a filter on tags that passes an item having some selected tag
MatchesTags_Any(item, spec) ==
  \/ spec.tagSelection = {}
  \/ \E t \in spec.tagSelection : t \in TagsOf(item)

\* every selected tag is among the tags of the item
MatchesTags(item, spec) ==
  \A t \in spec.tagSelection : t \in TagsOf(item)

\* the search text occurs, whatever its case, in the title, the explanation
\* or the joined tags
MatchesSearch(item, spec) ==
  \/ spec.searchText = <<>>
  \/ LET needle == LowerCase(spec.searchText)
     IN \/ Includes(LowerCase(item.title), needle)
        \/ Includes(LowerCase(item.explanation), needle)
        \/ Includes(LowerCase(Join(item.tags)), needle)

Passes(item, spec) ==
  /\ MatchesClassification(item, spec)
  /\ MatchesDifficulty(item, spec)
  /\ MatchesTags(item, spec)
  /\ MatchesSearch(item, spec)

\* easy < medium < hard, and no difficulty below them
Severity(difficulty) ==
  CASE difficulty = "easy"   -> 1
    [] difficulty = "medium" -> 2
    [] difficulty = "hard"   -> 3
    [] OTHER                 -> 0

\* the value an item is sorted by: its date (none counts as the oldest), its
\* title without case, or the rank of its difficulty
SortKey(item, sortField) ==
  CASE sortField = "dateAdded"  -> <<item.dateAdded>>
    [] sortField = "title"      -> LowerCase(item.title)
    [] sortField = "difficulty" -> <<Severity(item.difficulty)>>

\* the comparator: negative when a sorts before b; descending flips the sign
Compare(a, b, spec) ==
  LET ka == SortKey(a, spec.sortField)
      kb == SortKey(b, spec.sortField)
      c  == IF StrLess(ka, kb) THEN 0 - 1 ELSE IF StrLess(kb, ka) THEN 1 ELSE 0
  IN IF spec.sortDirection = "asc" THEN c ELSE 0 - c

\* item goes behind every item of sorted that does not sort after it
RECURSIVE InsertSorted(_, _, _)
InsertSorted(sorted, item, spec) ==
  IF sorted = <<>> THEN <<item>>
  ELSE IF Compare(item, Head(sorted), spec) < 0 THEN <<item>> \o sorted
  ELSE <<Head(sorted)>> \o InsertSorted(Tail(sorted), item, spec)

\* a stable sort by the comparator
RECURSIVE StableSort(_, _)
StableSort(items, spec) ==
  IF items = <<>> THEN <<>>
  ELSE InsertSorted(StableSort(SubSeq(items, 1, Len(items) - 1), spec),
                    items[Len(items)], spec)

\* a view that sorts ascending and reverses the list when descending is asked
deriveView_ReversesForDescending(collection, spec) ==
  LET Pass(item) == Passes(item, spec)
      up == StableSort(SelectSeq(collection, Pass),
                       [spec EXCEPT !.sortDirection = "asc"])
  IN IF spec.sortDirection = "asc" THEN up ELSE Reverse(up)

\* deriveView: the items that pass every filter, sorted
deriveView(collection, spec) ==
  LET Pass(item) == Passes(item, spec)
  IN StableSort(SelectSeq(collection, Pass), spec)

\* a render of App with the tags taken from the cards shown
Render_TagsOfView(cs, filters) ==
  [cards |-> cs, filters |-> filters,
   filteredAndSortedCards |-> deriveView(cs, filters),
   allTags |-> allTags(deriveView(cs, filters))]

\* a render of App: useCards gives cards and allTags, useFilters(cards) the
\* filters and the cards to show
Render(cs, filters) ==
  [cards |-> cs, filters |-> filters,
   filteredAndSortedCards |-> deriveView(cs, filters),
   allTags |-> allTags(cs)]

\* code-unit texts: "a", "b", "B"
TagA == <<97>>
TagB == <<98>>
TagUpperB == <<66>>

\* cards of a snapshot, without their identifiers: the first two have equal
\* sort keys in every sort field
CardPool ==
  {[title |-> <<65, 98>>, explanation |-> <<120>>, classification |-> "sorts",
    difficulty |-> "easy", tags |-> <<TagB, TagA>>, dateAdded |-> 2],
   [title |-> <<97, 98>>, explanation |-> <<120>>, classification |-> "sorts",
    difficulty |-> "easy", tags |-> <<TagA>>, dateAdded |-> 2],
   [title |-> <<66>>, explanation |-> <<97>>, classification |-> "data-structures",
    difficulty |-> "", tags |-> <<TagUpperB, TagB>>, dateAdded |-> 0],
   [title |-> <<98>>, explanation |-> <<120>>, classification |-> "data-structures",
    difficulty |-> "hard", tags |-> <<>>, dateAdded |-> 1]}

\* the store gives every card its own identifier
WithIds(cs) == [j \in 1..Len(cs) |-> cs[j] @@ [id |-> j]]

Snapshots ==
  {WithIds(cs) : cs \in UNION {[1..n -> CardPool] : n \in 0..MaxCards}}

\* what the user can set a filter to
FilterUpdates ==
  {[classification |-> c] : c \in {"all", "sorts", "data-structures"}}
  \cup {[difficulty |-> d] : d \in {"all", "easy", "hard"}}
  \cup {[tagSelection |-> ts] : ts \in SUBSET {TagA, TagB}}
  \cup {[searchText |-> t] : t \in {<<>>, <<65>>}}
  \cup {[sortField |-> f] : f \in {"dateAdded", "title", "difficulty"}}
  \cup {[sortDirection |-> d] : d \in {"asc", "desc"}}

\* no snapshot has been handed to useFilters
NoQuery == Render(<<>>, DefaultFilters)

\* useState(12) of itemsPerPage
ItemsPerPage == 12

\* the page sizes the user can pick: one card a page, or the first size
PageSizes == {1, ItemsPerPage}

\* useState(1) of currentPage, useState(12) of itemsPerPage
FirstPaging == [currentPage |-> 1, itemsPerPage |-> ItemsPerPage]

\* ------------------------------------------------ code editor (CodeEditor)
\* the texts of the terminal are sequences of parts, a template literal
\* having two
RunningMessage    == <<"Running...">>
RateLimitMessage  == <<"Error: You are clicking too fast! (Rate Limit)">>
ServerBusyMessage == <<"Error: Server is busy processing other jobs. Try again in 5s.">>
NetworkMessage    == <<"Network Error: Could not reach execution engine.">>
NoOutputMessage   == <<"No output returned.">>

\* `Error: ${data.error}`
ErrorMessage(text) == <<"Error: ", text>>

\* what the executor, or a proxy before it, can answer: a status and a body
\* that is no JSON, the JSON null, or a JSON object whose error, stdout and
\* stderr are texts ("" when it has none)
Statuses == {200, 429, 500, 503}

Bodies ==
  {[kind |-> "text", error |-> "", stdout |-> "", stderr |-> ""],
   [kind |-> "null", error |-> "", stdout |-> "", stderr |-> ""],
   [kind |-> "object", error |-> "", stdout |-> "", stderr |-> ""],
   [kind |-> "object", error |-> "failed", stdout |-> "", stderr |-> ""],
   [kind |-> "object", error |-> "", stdout |-> "42", stderr |-> ""],
   [kind |-> "object", error |-> "", stdout |-> "", stderr |-> "Traceback"]}

\* fetch() rejects: no response at all
NoResponse == [status |-> 0, body |-> [kind |-> "none", error |-> "", stdout |-> "", stderr |-> ""]]

Responses == {[status |-> s, body |-> b] : s \in Statuses, b \in Bodies} \cup {NoResponse}

\* res.json() throws on a body that is no JSON, and fetch() throws when there
\* is no response; data.error throws on null unless a status test came first
Throws(resp) ==
  \/ resp = NoResponse
  \/ resp.body.kind = "text"
  \/ resp.body.kind = "null" /\ resp.status \notin {429, 503}

\* the text handleRun puts in the terminal for a response
OutputFor(resp) ==
  IF Throws(resp) THEN NetworkMessage
  ELSE IF resp.status = 429 THEN RateLimitMessage
  ELSE IF resp.status = 503 THEN ServerBusyMessage
  ELSE IF resp.body.error # "" THEN ErrorMessage(resp.body.error)
  ELSE IF resp.body.stdout # "" THEN <<resp.body.stdout>>
  ELSE IF resp.body.stderr # "" THEN <<resp.body.stderr>>
  ELSE NoOutputMessage

\* useState of CodeEditor, with the requests sent and the last response
NewEditor ==
  [output |-> <<"">>, loading |-> FALSE, requests |-> 0,
   response |-> [NoResponse EXCEPT !.body.kind = "unsent"]]

\* no call of the service yet, no form shown, the build with the migration
CatalogIdle ==
  /\ rev = "cardService.ts"
  /\ x = SortSeed
  /\ table = <<>>
  /\ last = [op |-> "none"]
  /\ form = ClosedForm
  /\ writes = 0
  /\ detail = ClosedDetail
  /\ refetches = 0
  /\ query = NoQuery
  /\ paging = FirstPaging
  /\ editor = NewEditor

\* the catalogue synchronisation before any session
syncVars == <<store, nextId, marker, sess, cards, loading, error, guard, fetches,
              pending, extWrites, bulkInserts, deleted, fetchFailed>>

SyncIdle ==
  /\ store = <<>>
  /\ nextId = 1
  /\ marker = FALSE
  /\ sess = [s \in Sessions |-> "none"]
  /\ cards = [s \in Sessions |-> <<>>]
  /\ loading = [s \in Sessions |-> TRUE]
  /\ error = [s \in Sessions |-> NoError]
  /\ guard = [s \in Sessions |-> IdleGuard]
  /\ fetches = [s \in Sessions |-> <<>>]
  /\ pending = [s \in Sessions |-> 0]
  /\ extWrites = 0
  /\ bulkInserts = 0
  /\ deleted = FALSE
  /\ fetchFailed = [s \in Sessions |-> FALSE]

Init == SyncIdle /\ CatalogIdle

\* ------------------------------------------------ Migration Guard (steps)
\* The guard has returned normally: loadCards goes on to `await getAllCards()`.
\* (cardService.ts 148-151, 160-164, 178-179 -> useCards.ts 24)
GuardReturns(s, g) ==
  /\ guard' = [guard EXCEPT ![s] = [g EXCEPT !.pc = "returned"]]
  /\ fetches' = [fetches EXCEPT ![s] = Append(@, NewFetch("load"))]

\* Mount with the marker check of migrateHardcodedCards dropped: the run
\* always goes on to the existence probe.
Mount_IgnoresMarker(s) ==
  /\ sess[s] = "none"
  /\ \A t \in Sessions : t < s => sess[t] # "none"
  /\ sess' = [sess EXCEPT ![s] = "live"]
  /\ loading' = [loading EXCEPT ![s] = TRUE]
  /\ error' = [error EXCEPT ![s] = NoError]
  /\ guard' = [guard EXCEPT ![s] = [@ EXCEPT !.prior = {t \in Sessions : GuardEnded(t)},
                                             !.hadItems = Len(store) > 0,
                                             !.sawMarker = marker,
                                             !.pc = "probe", !.nProbe = @ + 1]]
  /\ UNCHANGED <<store, nextId, marker, cards, fetches, pending,
                 extWrites, bulkInserts, deleted, fetchFailed>>
  /\ UNCHANGED catVars

\* Mount with the `await` on migrateHardcodedCards() missing: getAllCards is
\* called while the guard is still running.
Mount_FetchesBeforeGuard(s) ==
  /\ sess[s] = "none"
  /\ \A t \in Sessions : t < s => sess[t] # "none"
  /\ sess' = [sess EXCEPT ![s] = "live"]
  /\ loading' = [loading EXCEPT ![s] = TRUE]
  /\ error' = [error EXCEPT ![s] = NoError]
  /\ guard' = [guard EXCEPT ![s] = [@ EXCEPT !.prior = {t \in Sessions : GuardEnded(t)},
                                             !.hadItems = Len(store) > 0,
                                             !.sawMarker = marker,
                                             !.pc = IF marker THEN "returned" ELSE "probe",
                                             !.nProbe = IF marker THEN @ ELSE @ + 1]]
  /\ fetches' = [fetches EXCEPT ![s] = Append(@, NewFetch("load"))]
  /\ UNCHANGED <<store, nextId, marker, cards, pending, extWrites,
                 bulkInserts, deleted, fetchFailed>>
  /\ UNCHANGED catVars

\* useEffect body: mounted = true, loadCards() up to its first await, and the
\* channel subscription.  loadCards: setLoading(true); setError(null);
\* migrateHardcodedCards() checks the marker and either returns or sends the
\* existence probe.
Mount(s) ==
  /\ sess[s] = "none"
  /\ \A t \in Sessions : t < s => sess[t] # "none"
  /\ sess' = [sess EXCEPT ![s] = "live"]
  /\ loading' = [loading EXCEPT ![s] = TRUE]
  /\ error' = [error EXCEPT ![s] = NoError]
  /\ LET g == [guard[s] EXCEPT !.prior = {t \in Sessions : GuardEnded(t)},
                               !.hadItems = Len(store) > 0,
                               !.sawMarker = marker]
     IN IF marker
        THEN GuardReturns(s, g)
        ELSE /\ guard' = [guard EXCEPT ![s] = [g EXCEPT !.pc = "probe", !.nProbe = @ + 1]]
             /\ UNCHANGED fetches
  /\ UNCHANGED <<store, nextId, marker, cards, pending, extWrites,
                 bulkInserts, deleted, fetchFailed>>
  /\ UNCHANGED catVars

\* ProbeReturn with the existence test off by one
\* (`existingCards.length > 1` under `.limit(1)`): rows are never seen.
ProbeReturn_NeverSeesRows(s, res) ==
  /\ Running(s)
  /\ guard[s].pc = "probe"
  /\ guard' = [guard EXCEPT ![s] = [@ EXCEPT !.probe = IF res = "error" THEN "error" ELSE "empty",
                                             !.pc = "insert", !.nInsert = @ + 1]]
  /\ UNCHANGED <<store, nextId, marker, sess, cards, loading, error, fetches,
                 pending, extWrites, bulkInserts, deleted, fetchFailed>>
  /\ UNCHANGED catVars

\* The response of `.select('id').limit(1)` arrives.  The client destructures
\* only `data`: a failed probe has data = null and is not told apart from an
\* empty table.
ProbeReturn(s, res) ==
  /\ Running(s)
  /\ guard[s].pc = "probe"
  /\ LET seen == IF res = "error" THEN "error"
                 ELSE IF Len(store) > 0 THEN "rows" ELSE "empty"
         g == [guard[s] EXCEPT !.probe = seen]
     IN IF seen = "rows"
        THEN /\ marker' = TRUE
             /\ GuardReturns(s, [g EXCEPT !.setMarker = TRUE])
        ELSE /\ guard' = [guard EXCEPT ![s] = [g EXCEPT !.pc = "insert", !.nInsert = @ + 1]]
             /\ UNCHANGED <<marker, fetches>>
  /\ UNCHANGED <<store, nextId, sess, cards, loading, error, pending,
                 extWrites, bulkInserts, deleted, fetchFailed>>
  /\ UNCHANGED catVars

\* The store serves `.insert(cardsToInsert)`: all seed rows or none.
InsertServe(s, res) ==
  /\ guard[s].pc = "insert"
  /\ guard' = [guard EXCEPT ![s] = [@ EXCEPT !.ins = res,
                 !.pc = IF sess[s] = "crashed" THEN "crashed" ELSE "insertResp"]]
  /\ IF res = "ok"
     THEN /\ store' = store \o NewRows(SeedList, nextId)
          /\ nextId' = nextId + Len(SeedList)
          /\ bulkInserts' = bulkInserts + 1
          /\ pending' = Broadcast
     ELSE UNCHANGED <<store, nextId, bulkInserts, pending>>
  /\ UNCHANGED <<marker, sess, cards, loading, error, fetches,
                 extWrites, deleted, fetchFailed>>
  /\ UNCHANGED catVars

\* InsertReturn with setMigrationComplete() called before the error test.
InsertReturn_MarksOnFailure(s) ==
  /\ Running(s)
  /\ guard[s].pc = "insertResp"
  /\ marker' = TRUE
  /\ IF guard[s].ins = "ok"
     THEN /\ GuardReturns(s, [guard[s] EXCEPT !.setMarker = TRUE])
          /\ UNCHANGED <<error, loading>>
     ELSE /\ guard' = [guard EXCEPT ![s] = [@ EXCEPT !.pc = "failed", !.setMarker = TRUE]]
          /\ error' = [error EXCEPT ![s] = IF mounted(s) THEN MigrateError ELSE @]
          /\ loading' = [loading EXCEPT ![s] = IF mounted(s) THEN FALSE ELSE @]
          /\ UNCHANGED fetches
  /\ UNCHANGED <<store, nextId, sess, cards, pending, extWrites,
                 bulkInserts, deleted, fetchFailed>>
  /\ UNCHANGED catVars

\* The response of the bulk insert arrives: setMigrationComplete() and return,
\* or throw; the throw is re-thrown by the guard's catch and caught by the
\* catch of loadCards (useCards.ts 29-38).
InsertReturn(s) ==
  /\ Running(s)
  /\ guard[s].pc = "insertResp"
  /\ IF guard[s].ins = "ok"
     THEN /\ marker' = TRUE
          /\ GuardReturns(s, [guard[s] EXCEPT !.setMarker = TRUE])
          /\ UNCHANGED <<error, loading>>
     ELSE /\ guard' = [guard EXCEPT ![s] = [@ EXCEPT !.pc = "failed"]]
          /\ error' = [error EXCEPT ![s] = IF mounted(s) THEN MigrateError ELSE @]
          /\ loading' = [loading EXCEPT ![s] = IF mounted(s) THEN FALSE ELSE @]
          /\ UNCHANGED <<marker, fetches>>
  /\ UNCHANGED <<store, nextId, sess, cards, pending, extWrites,
                 bulkInserts, deleted, fetchFailed>>
  /\ UNCHANGED catVars

\* The tab is closed while the guard is between two of its steps: nothing of
\* the session runs any more.  An insert request already sent is still served.
Crash(s) ==
  /\ Running(s)
  /\ GuardActive(s)
  /\ sess' = [sess EXCEPT ![s] = "crashed"]
  /\ guard' = [guard EXCEPT ![s] = [@ EXCEPT !.pc = IF @ = "insert" THEN "insert" ELSE "crashed"]]
  /\ fetches' = [fetches EXCEPT ![s] = <<>>]
  /\ pending' = [pending EXCEPT ![s] = 0]
  /\ UNCHANGED <<store, nextId, marker, cards, loading, error,
                 extWrites, bulkInserts, deleted, fetchFailed>>
  /\ UNCHANGED catVars

\* The browser's local storage is cleared: the marker is lost.
ClearStorage ==
  /\ marker
  /\ marker' = FALSE
  /\ UNCHANGED <<store, nextId, sess, cards, loading, error, guard, fetches,
                 pending, extWrites, bulkInserts, deleted, fetchFailed>>
  /\ UNCHANGED catVars

\* ------------------------------------------------ remote store (writes)
\* createCard: `.insert(dbCard)` served by the store.
CreateCard ==
  /\ extWrites < MaxExtWrites
  /\ store' = Append(store, [id |-> nextId, title |-> "user"])
  /\ nextId' = nextId + 1
  /\ extWrites' = extWrites + 1
  /\ pending' = Broadcast
  /\ UNCHANGED <<marker, sess, cards, loading, error, guard, fetches,
                 bulkInserts, deleted, fetchFailed>>
  /\ UNCHANGED catVars

\* deleteCard: `.delete().eq('id', id)` served by the store.
DeleteCard(i) ==
  /\ extWrites < MaxExtWrites
  /\ i \in 1..Len(store)
  /\ store' = RemoveAt(store, i)
  /\ extWrites' = extWrites + 1
  /\ deleted' = TRUE
  /\ pending' = Broadcast
  /\ UNCHANGED <<nextId, marker, sess, cards, loading, error, guard, fetches, bulkInserts, fetchFailed>>
  /\ UNCHANGED catVars

\* ------------------------------------------------ Reactive Catalog Cache
\* FetchServe with getAllCards answering a select error by an empty list
\* instead of throwing.
FetchServe_EmptyOnError(s, i, res) ==
  /\ Running(s)
  /\ i \in 1..Len(fetches[s])
  /\ fetches[s][i].phase = "sent"
  /\ fetches' = [fetches EXCEPT ![s][i] =
        [@ EXCEPT !.phase = "served", !.ok = TRUE,
                  !.data = IF res = "ok" THEN SelectAll ELSE <<>>]]
  /\ fetchFailed' = [fetchFailed EXCEPT ![s] = @ \/ res = "error"]
  /\ UNCHANGED <<store, nextId, marker, sess, cards, loading, error, guard,
                 pending, extWrites, bulkInserts, deleted>>
  /\ UNCHANGED catVars

\* The store serves the select of one getAllCards call: getAllCards throws
\* on a select error (ok = FALSE) and returns the rows otherwise.
FetchServe(s, i, res) ==
  /\ Running(s)
  /\ i \in 1..Len(fetches[s])
  /\ fetches[s][i].phase = "sent"
  /\ fetches' = [fetches EXCEPT ![s][i] =
        [@ EXCEPT !.phase = "served", !.ok = (res = "ok"),
                  !.data = IF res = "ok" THEN SelectAll ELSE <<>>]]
  /\ fetchFailed' = [fetchFailed EXCEPT ![s] = @ \/ res = "error"]
  /\ UNCHANGED <<store, nextId, marker, sess, cards, loading, error, guard,
                 pending, extWrites, bulkInserts, deleted>>
  /\ UNCHANGED catVars

\* LoadApply without the `if (mounted)` tests.
LoadApply_Unguarded(s, f) ==
  /\ cards' = [cards EXCEPT ![s] = IF f.ok THEN f.data ELSE @]
  /\ error' = [error EXCEPT ![s] = IF ~f.ok THEN FetchError ELSE @]
  /\ loading' = [loading EXCEPT ![s] = FALSE]

\* LoadApply with setLoading(false) at the end of the try block instead of in
\* a finally: a failed load never clears loading.
LoadApply_NoFinally(s, f) ==
  /\ cards' = [cards EXCEPT ![s] = IF f.ok /\ mounted(s) THEN f.data ELSE @]
  /\ error' = [error EXCEPT ![s] = IF ~f.ok /\ mounted(s) THEN FetchError ELSE @]
  /\ loading' = [loading EXCEPT ![s] = IF f.ok /\ mounted(s) THEN FALSE ELSE @]

\* The continuation of loadCards after `await getAllCards()`.
LoadApply(s, f) ==
  /\ cards' = [cards EXCEPT ![s] = IF f.ok /\ mounted(s) THEN f.data ELSE @]
  /\ error' = [error EXCEPT ![s] = IF ~f.ok /\ mounted(s) THEN FetchError ELSE @]
  /\ loading' = [loading EXCEPT ![s] = IF mounted(s) THEN FALSE ELSE @]

\* NotifyApply patching the snapshot with the rows it received instead of
\* replacing it.
NotifyApply_Patches(s, f) ==
  /\ cards' = [cards EXCEPT ![s] = IF f.ok /\ mounted(s) THEN f.data \o @ ELSE @]
  /\ UNCHANGED <<error, loading>>

\* The continuation of the postgres_changes handler.
NotifyApply(s, f) ==
  /\ cards' = [cards EXCEPT ![s] = IF f.ok /\ mounted(s) THEN f.data ELSE @]
  /\ UNCHANGED <<error, loading>>

\* The continuation of refetch().
RefetchApply(s, f) ==
  /\ cards' = [cards EXCEPT ![s] = IF f.ok THEN f.data ELSE @]
  /\ error' = [error EXCEPT ![s] = IF ~f.ok THEN FetchError ELSE @]
  /\ loading' = [loading EXCEPT ![s] = FALSE]

\* The response of one getAllCards call arrives, in any order.
FetchReturn(s, i) ==
  /\ Running(s)
  /\ i \in 1..Len(fetches[s])
  /\ fetches[s][i].phase = "served"
  /\ LET f == fetches[s][i]
     IN CASE f.origin = "load"    -> LoadApply(s, f)
          [] f.origin = "notify"  -> NotifyApply(s, f)
          [] f.origin = "refetch" -> RefetchApply(s, f)
  /\ fetches' = [fetches EXCEPT ![s] = RemoveAt(@, i)]
  /\ UNCHANGED <<store, nextId, marker, sess, guard, pending,
                 extWrites, bulkInserts, deleted, fetchFailed>>
  /\ UNCHANGED catVars

\* A change event reaches the channel: the handler starts a getAllCards.
NotifyHandler(s) ==
  /\ Subscribed(s)
  /\ pending[s] > 0
  /\ InFlight(s) < MaxInFlight
  /\ pending' = [pending EXCEPT ![s] = @ - 1]
  /\ fetches' = [fetches EXCEPT ![s] = Append(@, NewFetch("notify"))]
  /\ UNCHANGED <<store, nextId, marker, sess, cards, loading, error, guard, extWrites, bulkInserts, deleted, fetchFailed>>
  /\ UNCHANGED catVars

\* refetch() up to its await: setLoading(true); setError(null); getAllCards().
Refetch(s) ==
  /\ sess[s] = "live"
  /\ InFlight(s) < MaxInFlight
  /\ loading' = [loading EXCEPT ![s] = TRUE]
  /\ error' = [error EXCEPT ![s] = NoError]
  /\ fetches' = [fetches EXCEPT ![s] = Append(@, NewFetch("refetch"))]
  /\ UNCHANGED <<store, nextId, marker, sess, cards, guard, pending,
                 extWrites, bulkInserts, deleted, fetchFailed>>
  /\ UNCHANGED catVars

\* The effect's cleanup: mounted = false; supabase.removeChannel(channel).
Teardown(s) ==
  /\ sess[s] = "live"
  /\ sess' = [sess EXCEPT ![s] = "torn"]
  /\ pending' = [pending EXCEPT ![s] = 0]
  /\ UNCHANGED <<store, nextId, marker, cards, loading, error, guard, fetches, extWrites, bulkInserts, deleted, fetchFailed>>
  /\ UNCHANGED catVars

Outcomes == {"ok", "error"}

\* ------------------------------------------------ card service (calls)
\* createCard: insert(cardToDb(card)).select().single(), then dbToCard(data);
\* it throws when the store answers with an error.
createCard(card, res) ==
  LET dbCard == cardToDb(card)
      row    == InsertRow(dbCard, Len(SeedCards) + writes + 1)
  IN /\ table' = IF res = "ok" THEN Append(table, row) ELSE table
     /\ last' = IF res = "ok"
                THEN [op |-> "create", ok |-> TRUE, card |-> card, sent |-> dbCard,
                      before |-> table, got |-> dbToCard(row)]
                ELSE [op |-> "create", ok |-> FALSE, card |-> card, sent |-> dbCard,
                      before |-> table]
     /\ writes' = writes + 1

\* updateCard: update(updateData).eq('id', id).select().single(), then
\* dbToCard(data); it throws when the store answers with an error, as
\* single() does when no row has the identifier.
updateCard(id, updates, res) ==
  LET updateData == UpdateData(updates)
      ok         == res = "ok" /\ HasId(table, id)
      row        == UpdateRow(RowById(table, id), updateData)
  IN /\ table' = IF ok THEN [table EXCEPT ![IndexOf(table, id)] = row] ELSE table
     /\ last' = IF ok
                THEN [op |-> "update", ok |-> TRUE, id |-> id, updates |-> updates,
                      sent |-> updateData, before |-> table, got |-> dbToCard(row)]
                ELSE [op |-> "update", ok |-> FALSE, id |-> id, updates |-> updates,
                      sent |-> updateData, before |-> table]
     /\ writes' = writes + 1

\* deleteCard: delete().eq('id', id); it throws when the store answers with
\* an error, and the store answers a delete that matches no row without one.
deleteCard(id, res) ==
  /\ table' = IF res = "ok" THEN DeleteRows(table, id) ELSE table
  /\ last' = [op |-> "delete", ok |-> res = "ok", id |-> id, before |-> table]
  /\ writes' = writes + 1

\* The item x passes through the adapter: createCard(x).
CreateItem(res) ==
  /\ writes < MaxWrites
  /\ createCard(x, res)
  /\ UNCHANGED <<rev, x, form, detail, refetches, query, paging, editor>>
  /\ UNCHANGED syncVars

\* A caller updates an existing card with a partial card.
UpdateItem(id, updates, res) ==
  /\ writes < MaxWrites
  /\ HasId(table, id)
  /\ updateCard(id, updates, res)
  /\ UNCHANGED <<rev, x, form, detail, refetches, query, paging, editor>>
  /\ UNCHANGED syncVars

\* A caller deletes the card of an identifier, stored or not.
DeleteItem(id, res) ==
  /\ writes < MaxWrites
  /\ deleteCard(id, res)
  /\ UNCHANGED <<rev, x, form, detail, refetches, query, paging, editor>>
  /\ UNCHANGED syncVars

\* ------------------------------------------------ card form (handlers)
\* The modal is opened, to create a card or to edit a card of the catalogue.
OpenForm(id, auth) ==
  /\ ~form.open
  /\ id = 0 \/ HasId(table, id)
  /\ form' = InitialForm(id, IF id = 0 THEN NoUpdates
                             ELSE dbToCard(RowById(table, id)), auth)
  /\ UNCHANGED <<rev, x, table, last, writes, detail, refetches, query, paging, editor>>
  /\ UNCHANGED syncVars

\* handleClassificationChange: methods are cleared when the classification
\* leaves data-structures.
handleClassificationChange(classification) ==
  /\ form.open
  /\ form' = [form EXCEPT !.classification = classification,
                          !.methods = IF classification # "data-structures"
                                      THEN <<>> ELSE @]
  /\ UNCHANGED <<rev, x, table, last, writes, detail, refetches, query, paging, editor>>
  /\ UNCHANGED syncVars

\* handleChange('timeComplexity', value)
handleChange(value) ==
  /\ form.open
  /\ form' = [form EXCEPT !.timeComplexity = value]
  /\ UNCHANGED <<rev, x, table, last, writes, detail, refetches, query, paging, editor>>
  /\ UNCHANGED syncVars

\* addMethod, updateMethod, removeMethod: the user edits the list of methods
editMethods(methods) ==
  /\ form.open
  /\ form' = [form EXCEPT !.methods = methods]
  /\ UNCHANGED <<rev, x, table, last, writes, detail, refetches, query, paging, editor>>
  /\ UNCHANGED syncVars

\* App.handleCardCreated: await refetch(); the call is counted here and its
\* steps are those of Refetch and RefetchApply.
handleCardCreated == refetches' = refetches + 1

\* onSuccess of the modal: handleCardCreated for the modal of App, and
\* handleCardUpdated for the modal of CardDetail, which hides the modal and
\* calls onCardUpdated (handleCardCreated)
onSuccess ==
  /\ detail' = [detail EXCEPT !.showEditModal = FALSE]
  /\ handleCardCreated

\* handleSubmit without the sign-in test: the card is sent whoever submits
handleSubmit_NoAuthCheck(res) ==
  /\ form.open
  /\ writes < MaxWrites
  /\ IF form.card # 0
     THEN updateCard(form.card, CardData(form), res)
     ELSE createCard(CardData(form), res)
  /\ IF last'.ok
     THEN form' = ClosedForm /\ onSuccess
     ELSE /\ form' = [form EXCEPT !.error = SaveError]
          /\ UNCHANGED <<detail, refetches>>
  /\ UNCHANGED <<rev, x, query, paging, editor>>
  /\ UNCHANGED syncVars

\* handleSubmit that closes the modal without calling onSuccess()
handleSubmit_NoOnSuccess(res) ==
  /\ form.open
  /\ IF ~form.isAuthenticated
     THEN /\ form' = [form EXCEPT !.showAuthModal = TRUE]
          /\ UNCHANGED <<table, last, writes, detail, refetches>>
     ELSE /\ writes < MaxWrites
          /\ IF form.card # 0
             THEN updateCard(form.card, CardData(form), res)
             ELSE createCard(CardData(form), res)
          /\ IF last'.ok
             THEN /\ form' = ClosedForm
                  /\ detail' = [detail EXCEPT !.showEditModal = FALSE]
                  /\ UNCHANGED refetches
             ELSE /\ form' = [form EXCEPT !.error = SaveError]
                  /\ UNCHANGED <<detail, refetches>>
  /\ UNCHANGED <<rev, x, query, paging, editor>>
  /\ UNCHANGED syncVars

\* handleSubmit: unauthenticated, it only opens the sign-in modal; otherwise
\* it sends cardData to updateCard or createCard; when the call succeeds it
\* calls onSuccess() and onClose(), and when it fails it shows the error.
handleSubmit(res) ==
  /\ form.open
  /\ IF ~form.isAuthenticated
     THEN /\ form' = [form EXCEPT !.showAuthModal = TRUE]
          /\ UNCHANGED <<table, last, writes, detail, refetches>>
     ELSE /\ writes < MaxWrites
          /\ IF form.card # 0
             THEN updateCard(form.card, CardData(form), res)
             ELSE createCard(CardData(form), res)
          /\ IF last'.ok
             THEN form' = ClosedForm /\ onSuccess
             ELSE /\ form' = [form EXCEPT !.error = SaveError]
                  /\ UNCHANGED <<detail, refetches>>
  /\ UNCHANGED <<rev, x, query, paging, editor>>
  /\ UNCHANGED syncVars

\* the modal is dismissed (onClose)
CloseForm ==
  /\ form.open
  /\ form' = ClosedForm
  /\ detail' = [detail EXCEPT !.showEditModal = FALSE]
  /\ UNCHANGED <<rev, x, table, last, writes, refetches, query, paging, editor>>
  /\ UNCHANGED syncVars

\* ------------------------------------------------ query (handlers)
\* updateFilters(updates) of useFilters: the filters are replaced by a copy
\* with the updates, and App renders again.
updateFilters(updates) ==
  query' = Render(query.cards, updates @@ query.filters)

\* resetFilters() of useFilters: back to the filters of the start
resetFilters ==
  query' = Render(query.cards, DefaultFilters)

\* setCurrentPage(1)
FirstPage == paging' = [paging EXCEPT !.currentPage = 1]

\* handleFiltersChange: updateFilters(updates); setCurrentPage(1)
handleFiltersChange(updates) ==
  /\ updateFilters(updates)
  /\ FirstPage
  /\ UNCHANGED <<rev, x, table, last, form, writes, detail, refetches, editor>>
  /\ UNCHANGED syncVars

\* handleReset: resetFilters(); setCurrentPage(1)
handleReset ==
  /\ resetFilters
  /\ FirstPage
  /\ UNCHANGED <<rev, x, table, last, form, writes, detail, refetches, editor>>
  /\ UNCHANGED syncVars

\* Array.prototype.slice(startIndex, endIndex)
Slice(list, startIndex, endIndex) ==
  [i \in 1..(IF endIndex < Len(list) THEN endIndex - startIndex
             ELSE IF startIndex < Len(list) THEN Len(list) - startIndex ELSE 0)
     |-> list[startIndex + i]]

\* paginatedCards of App
paginatedCards ==
  LET startIndex == (paging.currentPage - 1) * paging.itemsPerPage
      endIndex   == startIndex + paging.itemsPerPage
  IN Slice(query.filteredAndSortedCards, startIndex, endIndex)

\* the number of pages of a list of n cards
TotalPages(n, itemsPerPage) == (n + itemsPerPage - 1) \div itemsPerPage

\* onPageChange: the user picks one of the pages of the list shown
onPageChange(p) ==
  /\ p \in 1..TotalPages(Len(query.filteredAndSortedCards), paging.itemsPerPage)
  /\ paging' = [paging EXCEPT !.currentPage = p]
  /\ UNCHANGED <<rev, x, table, last, form, writes, detail, refetches, query, editor>>
  /\ UNCHANGED syncVars

\* onItemsPerPageChange: setItemsPerPage(n); setCurrentPage(1)
onItemsPerPageChange(newItemsPerPage) ==
  /\ paging' = [currentPage |-> 1, itemsPerPage |-> newItemsPerPage]
  /\ UNCHANGED <<rev, x, table, last, form, writes, detail, refetches, query, editor>>
  /\ UNCHANGED syncVars

\* setCards of useCards: the snapshot is replaced, and App renders again with
\* the filters and the page it has
setCards(cs) ==
  /\ query' = Render(cs, query.filters)
  /\ UNCHANGED <<rev, x, table, last, form, writes, detail, refetches, paging, editor>>
  /\ UNCHANGED syncVars

\* ------------------------------------------------ code editor (handlers)
\* handleRun up to its await: the button is disabled while loading.
handleRun ==
  /\ ~editor.loading
  /\ editor.requests < MaxRuns
  /\ editor' = [editor EXCEPT !.loading = TRUE, !.output = RunningMessage,
                              !.requests = @ + 1]
  /\ UNCHANGED <<rev, x, table, last, form, writes, detail, refetches, query, paging>>
  /\ UNCHANGED syncVars

\* handleRun after its await: the response, or the failure of fetch, arrives.
RunReturn(resp) ==
  /\ editor.loading
  /\ editor' = [editor EXCEPT !.loading = FALSE, !.output = OutputFor(resp),
                              !.response = resp]
  /\ UNCHANGED <<rev, x, table, last, form, writes, detail, refetches, query, paging>>
  /\ UNCHANGED syncVars

\* ------------------------------------------------ card detail (handlers)
\* onCardClick: App shows CardDetail for a card of the snapshot.
SelectCard(id, auth) ==
  /\ detail.card = 0
  /\ ~form.open
  /\ HasId(table, id)
  /\ detail' = [ClosedDetail EXCEPT !.card = id, !.isAuthenticated = auth]
  /\ UNCHANGED <<rev, x, table, last, form, writes, refetches, query, paging, editor>>
  /\ UNCHANGED syncVars

\* + Create Card in the header: setShowCreateModal(true)
ShowCreateModal(auth) ==
  /\ detail.card = 0
  /\ OpenForm(0, auth)

\* handleEdit: unauthenticated, it opens the sign-in modal; otherwise it
\* shows the form for the card.
handleEdit ==
  /\ detail.card # 0
  /\ ~detail.showEditModal
  /\ IF ~detail.isAuthenticated
     THEN /\ detail' = [detail EXCEPT !.showAuthModal = TRUE]
          /\ UNCHANGED form
     ELSE /\ HasId(table, detail.card)
          /\ detail' = [detail EXCEPT !.showEditModal = TRUE]
          /\ form' = InitialForm(detail.card,
                                 dbToCard(RowById(table, detail.card)), TRUE)
  /\ UNCHANGED <<rev, x, table, last, writes, refetches, query, paging, editor>>
  /\ UNCHANGED syncVars

\* handleDelete without the confirmation: the first click deletes
handleDelete_NoConfirm(res) ==
  /\ detail.card # 0
  /\ ~detail.showEditModal
  /\ IF ~detail.isAuthenticated
     THEN /\ detail' = [detail EXCEPT !.showAuthModal = TRUE]
          /\ UNCHANGED <<table, last, writes, refetches>>
     ELSE /\ writes < MaxWrites
          /\ deleteCard(detail.card, res)
          /\ IF last'.ok
             THEN detail' = ClosedDetail /\ handleCardCreated
             ELSE /\ detail' = [detail EXCEPT !.showDeleteConfirm = FALSE]
                  /\ UNCHANGED refetches
  /\ UNCHANGED <<rev, x, form, query, paging, editor>>
  /\ UNCHANGED syncVars

\* handleDelete: unauthenticated, it opens the sign-in modal; the first click
\* asks for confirmation; the second calls deleteCard, then onClose() and
\* onCardUpdated() when the call succeeds, and alerts when it fails.
handleDelete(res) ==
  /\ detail.card # 0
  /\ ~detail.showEditModal
  /\ IF ~detail.isAuthenticated
     THEN /\ detail' = [detail EXCEPT !.showAuthModal = TRUE]
          /\ UNCHANGED <<table, last, writes, refetches>>
     ELSE IF ~detail.showDeleteConfirm
     THEN /\ detail' = [detail EXCEPT !.showDeleteConfirm = TRUE]
          /\ UNCHANGED <<table, last, writes, refetches>>
     ELSE /\ writes < MaxWrites
          /\ deleteCard(detail.card, res)
          /\ IF last'.ok
             THEN detail' = ClosedDetail /\ handleCardCreated
             ELSE /\ detail' = [detail EXCEPT !.showDeleteConfirm = FALSE]
                  /\ UNCHANGED refetches
  /\ UNCHANGED <<rev, x, form, query, paging, editor>>
  /\ UNCHANGED syncVars

\* onClose of CardDetail: setSelectedCard(null)
CloseDetail ==
  /\ detail.card # 0
  /\ ~detail.showEditModal
  /\ detail' = ClosedDetail
  /\ UNCHANGED <<rev, x, table, last, form, writes, refetches, query, paging, editor>>
  /\ UNCHANGED syncVars


\* ------------------------------------------------------- specifications
\* SpecGuard: every session runs the guard, with crashes, marker loss and
\* writes by other clients of the store.  The selects of getAllCards stay
\* unanswered and no session is torn down: no step of the cache reads or
\* writes the marker, the guard's run or the table, so the guard behaves the
\* same with them.
NextGuard ==
  \/ \E s \in Sessions : Mount(s)
  \/ \E s \in Sessions, res \in Outcomes : ProbeReturn(s, res)
  \/ \E s \in Sessions, res \in Outcomes : InsertServe(s, res)
  \/ \E s \in Sessions : InsertReturn(s)
  \/ \E s \in Sessions : Crash(s)
  \/ ClearStorage
  \/ CreateCard
  \/ \E i \in 1..Len(store) : DeleteCard(i)

SpecGuard == Init /\ [][NextGuard]_vars

\* SpecCache: one session of useCards from mount to teardown, with every
\* order of serving and answering its requests, against a store that changes
\* under it (its own bulk insert and cards other clients create); the cache
\* receives the same payload-free event for every kind of change.
CacheSessions == {1}

NextCache ==
  \/ \E s \in CacheSessions : Mount(s)
  \/ \E s \in CacheSessions, res \in Outcomes : ProbeReturn(s, res)
  \/ \E s \in CacheSessions, res \in Outcomes : InsertServe(s, res)
  \/ \E s \in CacheSessions : InsertReturn(s)
  \/ \E s \in CacheSessions, i \in 1..MaxInFlight, res \in Outcomes : FetchServe(s, i, res)
  \/ \E s \in CacheSessions, i \in 1..MaxInFlight : FetchReturn(s, i)
  \/ \E s \in CacheSessions : NotifyHandler(s)
  \/ \E s \in CacheSessions : Refetch(s)
  \/ \E s \in CacheSessions : Teardown(s)
  \/ CreateCard

SpecCache == Init /\ [][NextCache]_vars

\* SpecLoadFair: a session that is never torn down and in which every remote
\* call of loadCards completes: the probe and the bulk insert are answered,
\* and the select of the initial getAllCards is served and answered.  The
\* fetches that run beside the load are those of the change handler.
NextLoad ==
  \/ \E s \in CacheSessions : Mount(s)
  \/ \E s \in CacheSessions, res \in Outcomes : ProbeReturn(s, res)
  \/ \E s \in CacheSessions, res \in Outcomes : InsertServe(s, res)
  \/ \E s \in CacheSessions : InsertReturn(s)
  \/ \E s \in CacheSessions, i \in 1..MaxInFlight, res \in Outcomes : FetchServe(s, i, res)
  \/ \E s \in CacheSessions, i \in 1..MaxInFlight : FetchReturn(s, i)
  \/ \E s \in CacheSessions : NotifyHandler(s)
  \/ CreateCard

LoadFetchServed(s) ==
  \E i \in 1..MaxInFlight, res \in Outcomes :
    i \in 1..Len(fetches[s]) /\ fetches[s][i].origin = "load" /\ FetchServe(s, i, res)

LoadFetchReturned(s) ==
  \E i \in 1..MaxInFlight :
    i \in 1..Len(fetches[s]) /\ fetches[s][i].origin = "load" /\ FetchReturn(s, i)

\* the one remote answer loadCards is waiting for (it awaits one call at a time)
LoadStep(s) ==
  \/ \E res \in Outcomes : ProbeReturn(s, res)
  \/ \E res \in Outcomes : InsertServe(s, res)
  \/ InsertReturn(s)
  \/ LoadFetchServed(s)
  \/ LoadFetchReturned(s)

LoadFairness == \A s \in CacheSessions : WF_vars(LoadStep(s))

SpecLoadFair == Init /\ [][NextLoad]_vars /\ LoadFairness

\* SpecAdapter: an internal item passes through the adapter and the store, in
\* either revision of the service: cardToDb, insert, dbToCard of the row.
InitAdapter ==
  /\ SyncIdle
  /\ rev \in Revisions
  /\ x \in Items
  /\ table = SeedRows
  /\ last = [op |-> "none"]
  /\ form = ClosedForm
  /\ writes = 0
  /\ detail = ClosedDetail
  /\ refetches = 0
  /\ query = NoQuery
  /\ paging = FirstPaging
  /\ editor = NewEditor

NextAdapter == \E res \in Outcomes : CreateItem(res)

SpecAdapter == InitAdapter /\ [][NextAdapter]_vars

\* SpecService: partial updates and deletes on a seeded table, by the
\* identifier of a stored card or by one no card has.
InitCatalog ==
  /\ SyncIdle
  /\ rev \in Revisions
  /\ x = SortSeed
  /\ table = SeedRows
  /\ last = [op |-> "none"]
  /\ form = ClosedForm
  /\ writes = 0
  /\ detail = ClosedDetail
  /\ refetches = 0
  /\ query = NoQuery
  /\ paging = FirstPaging
  /\ editor = NewEditor

NextService ==
  \/ \E id \in 1..Len(SeedCards), updates \in Updates, res \in Outcomes :
       UpdateItem(id, updates, res)
  \/ \E id \in 1..(Len(SeedCards) + 1), res \in Outcomes : DeleteItem(id, res)

SpecService == InitCatalog /\ [][NextService]_vars

\* SpecForm: cards created and edited through CardFormModal over a seeded
\* table.
NextForm ==
  \/ \E id \in 0..(Len(SeedCards) + MaxWrites), auth \in BOOLEAN : OpenForm(id, auth)
  \/ \E c \in Classifications : handleClassificationChange(c)
  \/ \E v \in TimeTexts : handleChange(v)
  \/ \E ms \in MethodLists : editMethods(ms)
  \/ \E res \in Outcomes : handleSubmit(res)
  \/ CloseForm

SpecForm == InitCatalog /\ [][NextForm]_vars

\* SpecUI: the views of App over a seeded table: CardDetail with its edit
\* modal and its delete button, and the create modal of the header.
NextUI ==
  \/ \E id \in 1..(Len(SeedCards) + MaxWrites), auth \in BOOLEAN : SelectCard(id, auth)
  \/ handleEdit
  \/ \E res \in Outcomes : handleDelete(res)
  \/ CloseDetail
  \/ \E auth \in BOOLEAN : ShowCreateModal(auth)
  \/ \E v \in TimeTexts : handleChange(v)
  \/ \E res \in Outcomes : handleSubmit(res)
  \/ CloseForm

SpecUI == InitCatalog /\ [][NextUI]_vars

\* SpecQuery: App renders a snapshot under the filters the user sets.
InitQuery ==
  /\ SyncIdle
  /\ rev = "cardService.ts"
  /\ x = SortSeed
  /\ table = <<>>
  /\ last = [op |-> "none"]
  /\ form = ClosedForm
  /\ writes = 0
  /\ detail = ClosedDetail
  /\ refetches = 0
  /\ query \in {Render(cs, DefaultFilters) : cs \in Snapshots}
  /\ paging = FirstPaging
  /\ editor = NewEditor

NextQuery ==
  \/ \E updates \in FilterUpdates : handleFiltersChange(updates)
  \/ handleReset

SpecQuery == InitQuery /\ [][NextQuery]_vars

\* SpecPages: App pages through a snapshot that fetches replace, with the
\* classification filter and the page size changed by the user.
NextPages ==
  \/ \E c \in {"all", "sorts", "data-structures"} :
       handleFiltersChange([classification |-> c])
  \/ handleReset
  \/ \E p \in 1..(MaxCards + 1) : onPageChange(p)
  \/ \E n \in PageSizes : onItemsPerPageChange(n)
  \/ \E cs \in Snapshots : setCards(cs)

SpecPages == InitQuery /\ [][NextPages]_vars

\* SpecEditor: runs of the code of a card in CodeEditor, one after another,
\* with every answer of the executor.
NextEditor ==
  \/ handleRun
  \/ \E resp \in Responses : RunReturn(resp)

SpecEditor == Init /\ [][NextEditor]_vars

\* =================================================== Migration Guard claims
Started(s) == guard[s].pc # "idle"

\* the runs of s and t are in sequence: one had ended when the other began
InSequence(s, t) == s \in guard[t].prior \/ t \in guard[s].prior

\* the runs of s and t overlap in time
Overlap(s, t) == Started(s) /\ Started(t) /\ ~InSequence(s, t)

NoOverlap == \A s, t \in Sessions : s # t => ~Overlap(s, t)

\* C1: over non-overlapping runs of the guard with no card deleted, whatever
\* crashes, marker losses and failed remote calls occur, the seed list is
\* bulk-inserted successfully at most once.
C1_SeedInsertedAtMostOnce ==
  (NoOverlap /\ ~deleted) => bulkInserts <= 1

\* a first run: marker unset, store empty, the bulk insert succeeded
FirstRun(s) ==
  /\ guard[s].pc = "returned"
  /\ ~guard[s].sawMarker
  /\ ~guard[s].hadItems
  /\ guard[s].ins = "ok"

\* a second run after s: begun once s had returned, with the marker set
SecondRun(s, t) ==
  /\ s \in guard[t].prior
  /\ guard[t].sawMarker
  /\ guard[t].pc = "returned"

\* C2: a first run on an empty store with the marker unset whose insert
\* succeeds, followed by a run that finds the marker set, make exactly one
\* bulk insert call in total, and the second run issues no remote call.
C2_SecondRunIsSilent ==
  \A s, t \in Sessions :
    (FirstRun(s) /\ SecondRun(s, t)) =>
      /\ guard[s].nInsert + guard[t].nInsert = 1
      /\ guard[t].nProbe = 0
      /\ guard[t].nInsert = 0

C2_Witness == \E s, t \in Sessions : FirstRun(s) /\ SecondRun(s, t)

\* C3: a run with the marker unset against a store that already holds an
\* item (and keeps it) ends with no insert call made and the marker set.
C3_ExistingItemsNoInsert ==
  \A s \in Sessions :
    (guard[s].pc \in {"returned", "failed"} /\ ~guard[s].sawMarker
       /\ guard[s].hadItems /\ ~deleted) =>
      (guard[s].nInsert = 0 /\ guard[s].setMarker)

\* C4: the step of the guard that receives a failed bulk insert leaves the
\* marker as it was and ends the run as failed without a marker write, and
\* every session start that finds the marker unset sends the probe again.
C4_FailedInsertKeepsMarker ==
  [][\A s \in Sessions :
       /\ (guard[s].pc = "insertResp" /\ guard[s].ins = "error"
             /\ guard'[s].pc # "insertResp") =>
            (marker' = marker /\ guard'[s].pc \in {"failed", "crashed"}
               /\ ~guard'[s].setMarker)
       /\ (sess[s] = "none" /\ sess'[s] = "live" /\ ~marker) =>
            (guard'[s].pc = "probe" /\ guard'[s].nProbe = 1)]_vars

\* a failed run with the marker still unset, and a later start that probes
C4_Witness ==
  \E s, t \in Sessions :
    /\ guard[s].pc = "failed"
    /\ ~guard[s].setMarker
    /\ s \in guard[t].prior
    /\ ~guard[t].sawMarker
    /\ guard[t].nProbe = 1

\* both runs found the table empty and both bulk inserts succeeded
DoubleInsert(s, t) ==
  /\ s # t
  /\ guard[s].probe = "empty" /\ guard[s].ins = "ok"
  /\ guard[t].probe = "empty" /\ guard[t].ins = "ok"

\* C5: two runs whose probes both found the store empty and whose bulk
\* inserts both succeeded (no card deleted) are runs that overlap between
\* probe and insert; the state with two such inserts is reachable.
C5_DoubleInsertIsARace ==
  \A s, t \in Sessions : (DoubleInsert(s, t) /\ ~deleted) => Overlap(s, t)

C5_Witness ==
  /\ bulkInserts = 2
  /\ ~deleted
  /\ \E s, t \in Sessions : DoubleInsert(s, t) /\ Overlap(s, t)

\* C6: a failed seed transfer does not set the cache's error field.
C6_MigrationFailureNotSurfaced ==
  \A s \in Sessions : guard[s].pc = "failed" => error[s] # MigrateError
\* ============================================ Reactive Catalog Cache claims
\* the fetches of session s in flight that the change handler started
NotifyInFlight(s) == {i \in 1..Len(fetches[s]) : fetches[s][i].origin = "notify"}

\* the step is a continuation of loadCards or of the change handler of s
LoadOrNotifyStep(s) ==
  \/ \E res \in Outcomes : ProbeReturn(s, res)
  \/ InsertReturn(s)
  \/ \E i \in 1..Len(fetches[s]) :
       fetches[s][i].origin \in {"load", "notify"} /\ FetchReturn(s, i)

CacheUnchanged(s) ==
  /\ cards'[s] = cards[s]
  /\ loading'[s] = loading[s]
  /\ error'[s] = error[s]

\* C7: after teardown no continuation of the initial load or of a change
\* handler changes the snapshot, the loading flag or the error field.
C7_NoWriteByLoadOrNotifyAfterTeardown ==
  [][\A s \in Sessions :
       (sess[s] = "torn" /\ LoadOrNotifyStep(s)) => CacheUnchanged(s)]_vars

\* the initial load ran to its end after teardown: its fetch came back and
\* was dropped, loading was never cleared, the store's rows never shown
C7_Witness ==
  \E s \in Sessions :
    /\ sess[s] = "torn"
    /\ guard[s].pc = "returned"
    /\ fetches[s] = <<>>
    /\ loading[s]
    /\ cards[s] = <<>>
    /\ store # <<>>

\* C8: after teardown no step at all changes the snapshot, the loading flag
\* or the error field of the session.
C8_NoWriteAfterTeardown ==
  [][\A s \in Sessions : sess[s] = "torn" => CacheUnchanged(s)]_vars

\* the session is live, its initial load succeeded, every change event has
\* been handled and every getAllCards has come back, all successfully
Quiescent(s) ==
  /\ sess[s] = "live"
  /\ guard[s].pc = "returned"
  /\ fetches[s] = <<>>
  /\ pending[s] = 0
  /\ ~fetchFailed[s]

\* C9: in a live session with nothing in flight and every fetch successful,
\* the snapshot equals the store's current contents.
C9_EventualConsistency ==
  \A s \in Sessions : Quiescent(s) => cards[s] = SelectAll

\* C10: at most one getAllCards started by a change event is in flight.
C10_OneNotifyFetchInFlight ==
  \A s \in Sessions : Cardinality(NotifyInFlight(s)) <= 1


\* the getAllCards calls of loadCards of session s in flight
LoadFetches(s) == {i \in 1..Len(fetches[s]) : fetches[s][i].origin = "load"}

\* C11: every failed getAllCards of a live session, whoever started it, is
\* propagated when its response arrives: the error field holds the failure
\* (refetch also rejects its promise).
C11_FailedFetchPropagated ==
  [][\A s \in Sessions : \A i \in 1..Len(fetches[s]) :
       (sess[s] = "live" /\ fetches[s][i].phase = "served" /\ ~fetches[s][i].ok
          /\ FetchReturn(s, i)) => error'[s] = FetchError]_vars

\* C12: loading is true when the guard of a session starts, and loadCards
\* calls getAllCards only once that guard has returned.
C12_FetchAfterGuard ==
  [][\A s \in Sessions :
       /\ (guard[s].pc = "idle" /\ guard'[s].pc # "idle") => loading'[s]
       /\ (LoadFetches(s) = {} /\ \E i \in 1..Len(fetches'[s]) : fetches'[s][i].origin = "load")
            => guard'[s].pc = "returned"]_vars

\* the guard made its remote calls and returned, the initial fetch is out
C12_Witness ==
  \E s \in Sessions :
    /\ guard[s].pc = "returned"
    /\ guard[s].nProbe = 1
    /\ guard[s].nInsert = 1
    /\ LoadFetches(s) # {}
    /\ loading[s]


\* loadCards of session s has run to its end
LoadDone(s) ==
  /\ guard[s].pc \in {"returned", "failed"}
  /\ \A i \in 1..Len(fetches[s]) : fetches[s][i].origin # "load"

\* the step ends loadCards of s with the answer of its getAllCards
LoadEndsWith(s, i) ==
  /\ sess[s] = "live"
  /\ fetches[s][i].origin = "load"
  /\ fetches[s][i].phase = "served"
  /\ FetchReturn(s, i)

\* the step ends loadCards of s with the failure of the guard
LoadEndsInGuard(s) ==
  /\ sess[s] = "live"
  /\ guard[s].pc = "insertResp"
  /\ guard'[s].pc = "failed"

C14_SelectErrorThrownAndRecorded ==
  [][\A s \in Sessions : \A i \in 1..Len(fetches[s]) :
       /\ FetchServe(s, i, "error") =>
            (fetches'[s][i].phase = "served" /\ ~fetches'[s][i].ok)
       /\ (LoadEndsWith(s, i) /\ ~fetches[s][i].ok) =>
            (error'[s] = FetchError /\ cards'[s] = cards[s])]_vars

\* a failed initial load over a table that has rows: error set, snapshot empty
C14_Witness ==
  \E s \in Sessions :
    /\ sess[s] = "live"
    /\ LoadDone(s)
    /\ guard[s].pc = "returned"
    /\ fetchFailed[s]
    /\ error[s] = FetchError
    /\ cards[s] = <<>>
    /\ store # <<>>

\* C15: the snapshot changes only by being replaced with the complete result
\* of one getAllCards call of the session, and that result is the whole table
\* as the select found it; so the snapshot is the initial empty list or one
\* such result, never a patched list.
C15_SnapshotIsOneFetchResult ==
  [][\A s \in Sessions :
       /\ cards'[s] # cards[s] =>
            \E i \in 1..Len(fetches[s]) :
              /\ fetches[s][i].phase = "served"
              /\ fetches[s][i].ok
              /\ FetchReturn(s, i)
              /\ cards'[s] = fetches[s][i].data
       /\ \A i \in 1..Len(fetches[s]) :
            (fetches[s][i].phase = "sent" /\ FetchServe(s, i, "ok")) =>
              fetches'[s][i].data = SelectAll]_vars

\* a snapshot holding the seed rows and a card another client created: a
\* later fetch replaced an earlier result
C15_Witness ==
  \E s \in Sessions :
    /\ cards[s] # <<>>
    /\ cards[s] = SelectAll
    /\ bulkInserts > 0
    /\ extWrites > 0

NotifyFetches(s) == {i \in 1..Len(fetches[s]) : fetches[s][i].origin = "notify"}

\* C16: the teardown of a session releases its change subscription, and it
\* does so once: the session is torn down from live only and stays torn
\* down, its channel is unsubscribed from then on with no event left to
\* handle, and no step after teardown starts a change-triggered getAllCards.
C16_SubscriptionReleasedOnce ==
  [][\A s \in Sessions :
       /\ Teardown(s) => (sess[s] = "live" /\ Subscribed(s))
       /\ sess'[s] = "torn" =>
            /\ sess[s] \in {"live", "torn"}
            /\ ~Subscribed(s)'
            /\ pending'[s] = 0
       /\ sess[s] = "torn" =>
            /\ sess'[s] = "torn"
            /\ ~ENABLED NotifyHandler(s)
            /\ Cardinality(NotifyFetches(s)') <= Cardinality(NotifyFetches(s))]_vars

\* a torn-down session beside a table that was written to, with no change
\* event waiting and no fetch in flight
C16_Witness ==
  \E s \in Sessions :
    /\ sess[s] = "torn"
    /\ extWrites > 0
    /\ store # <<>>
    /\ pending[s] = 0
    /\ fetches[s] = <<>>

\* the step in which the guard of s ends, normally or with a failure
GuardEnds(s) ==
  /\ sess[s] = "live"
  /\ GuardActive(s)
  /\ guard'[s].pc \in {"returned", "failed"}

\* C26: whether the guard ends normally or fails, loadCards of a live
\* session goes on to its initial getAllCards.
C26_FetchIssuedAfterGuardFailure ==
  [][\A s \in Sessions : GuardEnds(s) => LoadFetches(s)' # {}]_vars

\* C27: the table only grows here, so a later state of it has more rows: no
\* replacement of the snapshot installs a result older than the one it holds.
C27_SnapshotNeverRegresses ==
  [][\A s \in Sessions : Len(cards'[s]) >= Len(cards[s])]_vars

\* the step ends a refetch() of s with the answer of its getAllCards
RefetchEndsWith(s, i) ==
  /\ fetches[s][i].origin = "refetch"
  /\ fetches[s][i].phase = "served"
  /\ FetchReturn(s, i)

\* C28: a refetch() issues one getAllCards; when it fails the snapshot stays,
\* the error field holds the failure and loading is false; when it succeeds
\* the snapshot is replaced, the error field is null and loading is false.
C28_RefetchOutcome ==
  [][\A s \in Sessions :
       /\ Refetch(s) => Len(fetches'[s]) = Len(fetches[s]) + 1
       /\ \A i \in 1..Len(fetches[s]) :
            RefetchEndsWith(s, i) =>
              /\ ~loading'[s]
              /\ IF fetches[s][i].ok
                 THEN cards'[s] = fetches[s][i].data /\ error'[s] = NoError
                 ELSE cards'[s] = cards[s] /\ error'[s] = FetchError]_vars

\* ================================================= card service claims
\* the fields of an internal item other than its identifier
ItemFields == DOMAIN NoUpdates

\* the fields a partial card supplies
Supplied(updates) == {f \in ItemFields : updates[f] # Undefined}

\* C17: after updateCard(id, updates) has succeeded, the card a following
\* getAllCards returns for id has every supplied field at its new value and
\* every other field as before, and every other row is as before.
C17_UpdateChangesOnlySupplied ==
  (last.op = "update" /\ last.ok) =>
    LET before == dbToCard(RowById(last.before, last.id))
        after  == dbToCard(RowById(table, last.id))
    IN /\ \A f \in Supplied(last.updates) : after[f] = last.updates[f]
       /\ \A f \in ItemFields \ Supplied(last.updates) : after[f] = before[f]
       /\ Len(table) = Len(last.before)
       /\ \A j \in 1..Len(table) :
            table[j].id # last.id => table[j] = last.before[j]

\* the stored card has one shape of complexity metadata only
Exclusive(row) ==
  IF row.classification = Val("data-structures")
  THEN row.time_complexity = Null
  ELSE row.methods = Null

\* C18: after every create and edit made through the form, a stored card of
\* classification data-structures has no single time complexity and a stored
\* card of any other classification has no list of methods.
C18_MetadataShapeExclusive ==
  \A j \in 1..Len(table) : Exclusive(table[j])

\* C19: an item that went through cardToDb, the store and dbToCard comes back
\* equal on every field but the identifier.
C19_AdapterRoundTrip ==
  (last.op = "create" /\ last.ok) =>
    \A f \in ItemFields : last.got[f] = last.card[f]

\* the optional fields of Card and the column each is stored in
OptionalColumns ==
  [difficulty |-> "difficulty", timeComplexity |-> "time_complexity",
   spaceComplexity |-> "space_complexity", methods |-> "methods",
   useCases |-> "use_cases", relatedProblems |-> "related_problems",
   dateAdded |-> "date_added", language |-> "language"]

\* C20: cardToDb emits a key for every optional field, holding a value or
\* null, and dbToCard gives undefined for every optional field whose column
\* is null.
C20_OptionalFieldsNormalised ==
  (last.op = "create" /\ last.ok) =>
    \A f \in DOMAIN OptionalColumns :
      /\ OptionalColumns[f] \in DOMAIN last.sent
      /\ last.sent[OptionalColumns[f]] # Undefined
      /\ table[Len(table)][OptionalColumns[f]] = Null => last.got[f] = Undefined

\* C22: deleteCard of an identifier that no stored card has fails.
C22_DeleteOfMissingIdFails ==
  (last.op = "delete" /\ ~HasId(last.before, last.id)) => ~last.ok

\* C21: a card created through the form has a language: the record sent to
\* the store holds one, and so does the item the cache fetches afterwards.
C21_CreatedCardHasLanguage ==
  (last.op = "create" /\ last.ok) =>
    /\ IsVal(last.card.language)
    /\ "language" \in DOMAIN last.sent
    /\ IsVal(last.sent.language)
    /\ IsVal(dbToCard(table[Len(table)]).language)


\* the step calls the card service from a view
UiWrite == writes' = writes + 1

\* C29: a create, update or delete made from a view that succeeds is followed
\* by one call of refetch(); one that fails is followed by none, and the form
\* stays open and shows the error.
C29_RefetchAfterSuccessfulWrite ==
  [][UiWrite =>
       IF last'.ok
       THEN refetches' = refetches + 1
       ELSE /\ refetches' = refetches
            /\ last'.op \in {"create", "update"} =>
                  form'.open /\ form'.error = SaveError]_vars

C29_Witness ==
  /\ refetches = 1
  /\ last.op = "delete"
  /\ last.ok

\* C30: after an edit made through the form has succeeded, the card fetched
\* for the identifier has every field at the value submitted, and every
\* optional field the form left empty is stored as null.
C30_EditStoresFormValues ==
  (last.op = "update" /\ last.ok) =>
    LET row == RowById(table, last.id)
    IN /\ \A f \in ItemFields \ {"dateAdded"} : dbToCard(row)[f] = last.updates[f]
       /\ \A f \in DOMAIN OptionalColumns \ {"dateAdded"} :
            last.updates[f] = Undefined => row[OptionalColumns[f]] = Null

\* ================================================= query claims
\* the list has no element twice and ascends by code units
Ascending(list) ==
  \A i \in 1..(Len(list) - 1) : StrLess(list[i], list[i + 1])

\* C23: allTags holds every tag of every card of the snapshot, each once, in
\* ascending order, whatever the filters are; no change of filters changes it.
C23_TagUniversality ==
  /\ [](/\ Ascending(query.allTags)
        /\ \A j \in 1..Len(query.cards) : \A i \in 1..Len(query.cards[j].tags) :
             \E k \in 1..Len(query.allTags) : query.allTags[k] = query.cards[j].tags[i]
        /\ \A k \in 1..Len(query.allTags) :
             \E j \in 1..Len(query.cards) : query.allTags[k] \in TagsOf(query.cards[j]))
  /\ [][query'.cards = query.cards => query'.allTags = query.allTags]_vars

\* the filters hide every card, two cards of the snapshot share a tag, and the
\* tags are all listed
C23_Witness ==
  /\ Len(query.cards) = 2
  /\ query.filteredAndSortedCards = <<>>
  /\ TagsOf(query.cards[1]) \cap TagsOf(query.cards[2]) # {}
  /\ Len(query.allTags) >= 2

\* filters g differ from f in one filter field only, and narrow it
Narrows(f, g) ==
  \/ /\ f.classification = "all" /\ g.classification # "all"
     /\ g = [f EXCEPT !.classification = g.classification]
  \/ /\ f.difficulty = "all" /\ g.difficulty # "all"
     /\ g = [f EXCEPT !.difficulty = g.difficulty]
  \/ /\ f.tagSelection \subseteq g.tagSelection /\ f.tagSelection # g.tagSelection
     /\ g = [f EXCEPT !.tagSelection = g.tagSelection]
  \/ /\ f.searchText = <<>> /\ g.searchText # <<>>
     /\ g = [f EXCEPT !.searchText = g.searchText]

\* the identifiers of the cards of a list
IdsOf(list) == {list[i].id : i \in 1..Len(list)}

\* C24: the cards shown are cards of the snapshot, each at most once, and a
\* change of filters that narrows one filter field never shows more cards.
C24_FilterMonotonicity ==
  /\ [](LET shown == query.filteredAndSortedCards
        IN /\ \A i \in 1..Len(shown) :
                \E j \in 1..Len(query.cards) : shown[i] = query.cards[j]
           /\ Cardinality(IdsOf(shown)) = Len(shown))
  /\ [][(query'.cards = query.cards /\ Narrows(query.filters, query'.filters)) =>
          /\ Len(query'.filteredAndSortedCards) <= Len(query.filteredAndSortedCards)
          /\ IdsOf(query'.filteredAndSortedCards) \subseteq IdsOf(query.filteredAndSortedCards)]_vars

\* two tags are selected and only one of two cards is shown
C24_Witness ==
  /\ query.filters.tagSelection = {TagA, TagB}
  /\ Len(query.cards) = 2
  /\ Len(query.filteredAndSortedCards) = 1

\* the position of the card of an identifier in a list
PositionOf(list, id) == CHOOSE i \in 1..Len(list) : list[i].id = id

\* C25: two cards shown whose sort keys are equal stand in the order they
\* have in the snapshot, in either direction and for every sort field.
C25_SortStability ==
  LET shown == query.filteredAndSortedCards
  IN \A i, j \in 1..Len(query.cards) :
       (/\ i < j
        /\ query.cards[i].id \in IdsOf(shown)
        /\ query.cards[j].id \in IdsOf(shown)
        /\ SortKey(query.cards[i], query.filters.sortField)
             = SortKey(query.cards[j], query.filters.sortField)) =>
         PositionOf(shown, query.cards[i].id) < PositionOf(shown, query.cards[j].id)

\* descending by title, two different cards with equal keys are shown
C25_Witness ==
  /\ query.filters.sortDirection = "desc"
  /\ query.filters.sortField = "title"
  /\ Len(query.filteredAndSortedCards) = 2
  /\ query.cards[1].title # query.cards[2].title
  /\ LowerCase(query.cards[1].title) = LowerCase(query.cards[2].title)

\* ================================================= marker and flags claims
\* C31: the marker goes from unset to set only in the step of a guard that
\* receives a successful bulk insert or a probe with an item, and no step of
\* a session or of the guard clears it.
C31_MarkerMonotoneAndJustified ==
  [][/\ (~marker /\ marker') =>
          \E s \in Sessions :
            /\ guard'[s].setMarker
            /\ \/ guard[s].pc = "insertResp" /\ guard[s].ins = "ok"
               \/ guard[s].pc = "probe" /\ guard'[s].probe = "rows"
     /\ (marker /\ ~marker') =>
          (sess' = sess /\ guard' = guard /\ fetches' = fetches /\ store' = store)]_vars

\* the marker is set, by one run after its bulk insert and by another after
\* its probe found rows
C31_Witness ==
  /\ marker
  /\ \E s, t \in Sessions :
       /\ guard[s].setMarker /\ guard[s].ins = "ok"
       /\ guard[t].setMarker /\ guard[t].probe = "rows"

\* C32: in a live session, while the initial load (its guard or its
\* getAllCards) or a refetch() is in flight, loading is true.
C32_LoadingAccurate ==
  \A s \in Sessions :
    (/\ sess[s] = "live"
     /\ \/ GuardActive(s)
        \/ \E i \in 1..Len(fetches[s]) : fetches[s][i].origin \in {"load", "refetch"}) =>
      loading[s]

\* the step applies the rows of a successful getAllCards to the snapshot
ReplacementApplied(s, i) ==
  /\ fetches[s][i].phase = "served"
  /\ fetches[s][i].ok
  /\ FetchReturn(s, i)
  /\ fetches[s][i].origin = "refetch" \/ mounted(s)

\* C33: after a step that replaces the snapshot by the rows of a successful
\* getAllCards, of the initial load, of refetch() or of a change event, the
\* error field is null.
C33_ErrorClearedBySuccess ==
  [][\A s \in Sessions : \A i \in 1..Len(fetches[s]) :
       ReplacementApplied(s, i) => error'[s] = NoError]_vars

\* ================================================= view claims
\* C34: deleteCard is called for the card of the detail view only, by an
\* authenticated user and from the confirm state; a delete click outside the
\* confirm state calls nothing; after the call has ended the confirm state is
\* left.
C34_DeleteOnlyAfterConfirmation ==
  [][/\ (writes' # writes /\ last'.op = "delete") =>
          /\ detail.isAuthenticated
          /\ detail.showDeleteConfirm
          /\ last'.id = detail.card
          /\ ~detail'.showDeleteConfirm
     /\ ((\E res \in Outcomes : handleDelete(res)) /\ ~detail.showDeleteConfirm) =>
          (writes' = writes /\ table' = table /\ last' = last)]_vars

\* a confirmed delete has failed: the view is still shown, out of the confirm
\* state
C34_Witness ==
  /\ last.op = "delete"
  /\ ~last.ok
  /\ detail.card = last.id
  /\ detail.isAuthenticated
  /\ ~detail.showDeleteConfirm

\* C35: a submit of the form by a user who is not signed in calls neither
\* createCard nor updateCard, neither onSuccess nor onClose, and only opens
\* the sign-in modal; a submit by a signed-in user makes one call, updateCard
\* for the card being edited or createCard when there is none.
C35_UnauthenticatedSubmitStaysLocal ==
  [][(\E res \in Outcomes : handleSubmit(res)) =>
       IF ~form.isAuthenticated
       THEN /\ writes' = writes /\ table' = table /\ last' = last
            /\ refetches' = refetches /\ detail' = detail
            /\ form' = [form EXCEPT !.showAuthModal = TRUE]
       ELSE /\ writes' = writes + 1
            /\ IF form.card # 0
               THEN last'.op = "update" /\ last'.id = form.card
               ELSE last'.op = "create"]_vars

\* the form is open for a user who is not signed in and shows the sign-in
\* modal: a submit has been made, and nothing was sent
C35_Witness ==
  /\ form.open
  /\ ~form.isAuthenticated
  /\ form.showAuthModal
  /\ writes = 0

\* C36: the current page is one of the pages of the cards to show: when there
\* are cards to show, the page displayed holds some of them.
C36_DisplayedPageValid ==
  query.filteredAndSortedCards # <<>> =>
    /\ paging.currentPage \in
         1..TotalPages(Len(query.filteredAndSortedCards), paging.itemsPerPage)
    /\ paginatedCards # <<>>

\* C37: a run answered with status 429 shows the rate-limit message and one
\* answered with 503 the server-busy message, whatever the body is; the two
\* differ from each other and from the error and network messages; a click on
\* Run sends one request, and loading is false after every run.
C37_RunOutcomesDistinct ==
  [][/\ handleRun => editor'.requests = editor.requests + 1
     /\ \A resp \in Responses :
          RunReturn(resp) =>
            /\ ~editor'.loading
            /\ editor'.requests = editor.requests
            /\ resp.status = 429 => editor'.output = RateLimitMessage
            /\ resp.status = 503 => editor'.output = ServerBusyMessage
     /\ RateLimitMessage # ServerBusyMessage
     /\ {RateLimitMessage, ServerBusyMessage} \cap {NetworkMessage, NoOutputMessage} = {}]_vars

TypeOK ==
  /\ marker \in BOOLEAN
  /\ \A s \in Sessions : sess[s] \in {"none", "live", "torn", "crashed"}
  /\ \A s \in Sessions : loading[s] \in BOOLEAN
  /\ \A s \in Sessions : error[s] \in {NoError, MigrateError, FetchError}

====
